---- MODULE Spec2Model ----
(***************************************************************************)
(* A model of GenerateQuestionsFromPDFsv3.py: the sliding-window chunker,  *)
(* the tokenizer pass that follows it, the per-chunk question generation   *)
(* with its catch-and-skip, the dataset writer and the run driver.         *)
(*                                                                         *)
(* Text is a sequence of one-character strings.  Three specifications      *)
(* share the variables:                                                    *)
(*   SpecChunk  split_text_into_smaller_chunks on bounded inputs, the      *)
(*              while loop of preliminary_split_text one iteration a step; *)
(*   SpecSave   save_qas_to_json on bounded inputs;                        *)
(*   Spec       main over a bounded directory listing.                     *)
(***************************************************************************)
EXTENDS Integers, Sequences, FiniteSets, TLC

VARIABLES
    \* split_text_into_smaller_chunks / preliminary_split_text (lines 41-79)
    text,            \* the text argument
    max_length,      \* the max_length argument
    overlap,         \* the overlap argument
    tokenizer,       \* which tokenizer model.tokenizer is
    current_start,   \* local of preliminary_split_text
    chunks,          \* local of preliminary_split_text
    windows,         \* the (current_start, end_index) of every slice taken
    final_chunks,    \* local of split_text_into_smaller_chunks
    token_counts,    \* token_count of every pre_chunk that passed line 73
    cpc,             \* position: "prelim", "tokenize", "returned", "ValueError"
    \* save_qas_to_json (lines 97-117)
    qas,             \* the qas argument / local of generate_qas
    pdf_file_path,   \* the pdf_file_path argument
    file,            \* contents of the output file, the array json.dump wrote
    spc,             \* position: "call", "returned" ("idle" outside SpecSave)
    \* main / generate_qas (lines 83-95, 121-148)
    listing,         \* os.listdir(folder_path)
    max_files,       \* the max_files argument
    pos,             \* how many listing entries the for loop has consumed
    texts,           \* local of main
    parts,           \* the chunks generate_qas iterates over
    part_idx,        \* how many of them were handed to the model
    submitted,       \* every argument model.generate_qa was called with
    outcomes,        \* what each of those calls did
    opened,          \* every path fitz.open was called with
    saves,           \* every (pdf_file_path, qas) save_qas_to_json was called with
    power,           \* "awake" or "sleep"
    mpc              \* position of main

chunkVars == <<text, max_length, overlap, tokenizer, current_start, chunks,
               windows, final_chunks, token_counts, cpc>>
saveVars  == <<qas, pdf_file_path, file, spc>>
mainVars  == <<listing, max_files, pos, texts, parts, part_idx, submitted,
               outcomes, opened, saves, power, mpc>>
vars == <<chunkVars, saveVars, mainVars>>

(***************************************************************************)
(* Bounds                                                                  *)
(***************************************************************************)
MaxTextLen == 3
MaxMaxLength == 3
\* The while loop is cut off after MaxIter iterations; a call with
\* overlap < max_length never gets there (it makes at most Len(text)).
MaxIter == MaxTextLen + 2

\* "E" stands for a character outside ASCII (such as an accented letter),
\* which a byte-level vocabulary encodes as two tokens.
Alphabet == {"a", " ", "E"}

Min(a, b) == IF a < b THEN a ELSE b
Max(a, b) == IF a > b THEN a ELSE b

RECURSIVE SeqsUpTo(_, _)
SeqsUpTo(S, n) ==
    IF n = 0 THEN {<<>>}
    ELSE LET shorter == SeqsUpTo(S, n - 1)
         IN  shorter \cup {Append(s, c) : s \in {t \in shorter : Len(t) = n - 1}, c \in S}

\* The concatenation of a sequence of sequences (by halves, so that the
\* evaluation of a long text stays shallow).
RECURSIVE Flatten(_)
Flatten(ss) ==
    IF ss = <<>> THEN <<>>
    ELSE IF Len(ss) = 1 THEN ss[1]
    ELSE LET h == Len(ss) \div 2
         IN  Flatten(SubSeq(ss, 1, h)) \o Flatten(SubSeq(ss, h + 1, Len(ss)))

(***************************************************************************)
(* Python's s[a:b] for a sequence s: a negative index counts from the end, *)
(* and both indices are clamped to 0..len(s).                              *)
(***************************************************************************)
PyIndex(i, n) == IF i < 0 THEN Max(i + n, 0) ELSE Min(i, n)
PySlice(s, a, b) == SubSeq(s, PyIndex(a, Len(s)) + 1, PyIndex(b, Len(s)))

(***************************************************************************)
(* preliminary_split_text, lines 41-55                                     *)
(***************************************************************************)
\* line 50: the loop condition
LoopCond(start, text_length) == start < text_length
\* line 51
EndIndex(start, ml, text_length) == Min(start + ml, text_length)
\* line 52: the slice appended to chunks
Window(t, start, ml) == PySlice(t, start, EndIndex(start, ml, Len(t)))
\* line 53, mutated: the window advances by a whole max_length
NextStartNoOverlap(start, ml, ov) == start + ml
\* line 53, mutated: the window advances one character too far
NextStartGap(start, ml, ov) == start + ml - ov + 1
\* line 53
NextStart(start, ml, ov) == start + ml - ov

\* The whole function, for overlap < max_length (otherwise it does not return).
RECURSIVE PrelimLoop(_, _, _, _, _)
PrelimLoop(t, ml, ov, start, acc) ==
    IF LoopCond(start, Len(t))
    THEN PrelimLoop(t, ml, ov, NextStart(start, ml, ov), Append(acc, Window(t, start, ml)))
    ELSE acc
preliminary_split_text(t, ml, ov) == PrelimLoop(t, ml, ov, 0, <<>>)

(***************************************************************************)
(* model.tokenizer, used at lines 70 and 76.  The tokenizer belongs to the *)
(* question-generation library; a run uses one of three:                   *)
(*   "char"  one token per character, detokenized by concatenation;        *)
(*   "word"  one token per run of non-blank characters, detokenized with   *)
(*           single blanks (blank runs and outer blanks are lost);         *)
(*   "byte"  one token per byte: a non-ASCII character is two tokens.      *)
(***************************************************************************)
Tokenizers == {"char", "word", "byte"}

\* The runs of non-blank characters of s, in order: those of its two halves,
\* the run that crosses the middle put together.
RECURSIVE WordSplit(_)
WordSplit(s) ==
    IF s = <<>> THEN <<>>
    ELSE IF Len(s) = 1 THEN (IF s[1] = " " THEN <<>> ELSE <<s>>)
    ELSE LET h == Len(s) \div 2
             l == WordSplit(SubSeq(s, 1, h))
             r == WordSplit(SubSeq(s, h + 1, Len(s)))
         IN  IF s[h] # " " /\ s[h + 1] # " "
             THEN SubSeq(l, 1, Len(l) - 1) \o <<l[Len(l)] \o r[1]>> \o Tail(r)
             ELSE l \o r

\* The tokens with one blank between neighbours.
JoinBlank(tokens) ==
    Flatten([i \in 1..Len(tokens) |-> IF i = 1 THEN tokens[i] ELSE <<" ">> \o tokens[i]])

Bytes(c) == IF c = "E" THEN << <<"E1">>, <<"E2">> >> ELSE << <<c>> >>

\* The characters of a byte sequence: the pair E1 E2 is one character.
DecodeBytes(bs) ==
    Flatten([i \in 1..Len(bs) |->
                IF bs[i] = "E1" /\ i < Len(bs) /\ bs[i + 1] = "E2" THEN <<"E">>
                ELSE IF bs[i] = "E2" /\ i > 1 /\ bs[i - 1] = "E1" THEN <<>>
                ELSE <<bs[i]>>])

\* tokenizer.tokenize(pre_chunk), line 70
Tokenize(kind, s) ==
    CASE kind = "char" -> [i \in 1..Len(s) |-> <<s[i]>>]
      [] kind = "word" -> WordSplit(s)
      [] kind = "byte" -> Flatten([i \in 1..Len(s) |-> Bytes(s[i])])

\* tokenizer.convert_tokens_to_string(tokens), line 76
ConvertTokensToString(kind, tokens) ==
    CASE kind = "char" -> Flatten(tokens)
      [] kind = "word" -> JoinBlank(tokens)
      [] kind = "byte" -> DecodeBytes(Flatten(tokens))

(***************************************************************************)
(* split_text_into_smaller_chunks, lines 57-79                             *)
(***************************************************************************)
\* line 73, mutated: the check lets one token too many through
OverflowsOffByOne(token_count, ml) == token_count > ml + 1
\* line 73
Overflows(token_count, ml) == token_count > ml

\* lines 68-77 over pre-chunks i.. ; the result is what the call does:
\* it raises ValueError, or it returns final_chunks.
RECURSIVE TokenizeLoop(_, _, _, _, _)
TokenizeLoop(kind, pre, ml, i, acc) ==
    IF i > Len(pre) THEN [raised |-> FALSE, final_chunks |-> acc]
    ELSE LET tokens == Tokenize(kind, pre[i])
         IN  IF Overflows(Len(tokens), ml)
             THEN [raised |-> TRUE, final_chunks |-> <<>>]
             ELSE TokenizeLoop(kind, pre, ml, i + 1,
                               Append(acc, ConvertTokensToString(kind, tokens)))

split_text_into_smaller_chunks(t, kind, ml, ov) ==
    TokenizeLoop(kind, preliminary_split_text(t, ml, ov), ml, 1, <<>>)

(***************************************************************************)
(* SpecChunk: one call of split_text_into_smaller_chunks                   *)
(***************************************************************************)
Texts == SeqsUpTo(Alphabet, MaxTextLen)

SaveIdle ==
    /\ qas = <<>> /\ pdf_file_path = <<>> /\ file = <<>> /\ spc = "idle"
MainIdle ==
    /\ listing = <<>> /\ max_files = 0 /\ pos = 0 /\ texts = <<>>
    /\ parts = <<>> /\ part_idx = 0 /\ submitted = <<>> /\ outcomes = <<>>
    /\ opened = <<>> /\ saves = <<>> /\ power = "awake" /\ mpc = "idle"
ChunkIdle ==
    /\ text = <<>> /\ max_length = 0 /\ overlap = 0
    /\ current_start = 0 /\ chunks = <<>> /\ windows = <<>>
    /\ final_chunks = <<>> /\ token_counts = <<>> /\ cpc = "idle"

InitChunk ==
    /\ text \in Texts
    /\ max_length \in 1..MaxMaxLength
    /\ overlap \in 0..MaxMaxLength
    /\ tokenizer \in Tokenizers
    /\ current_start = 0          \* line 47
    /\ chunks = <<>>              \* line 46
    /\ windows = <<>>
    /\ final_chunks = <<>>
    /\ token_counts = <<>>
    /\ cpc = "prelim"
    /\ SaveIdle /\ MainIdle

\* lines 50-53: one iteration of the while loop
PrelimStep ==
    /\ cpc = "prelim"
    /\ LoopCond(current_start, Len(text))
    /\ Len(chunks) < MaxIter
    /\ chunks' = Append(chunks, Window(text, current_start, max_length))
    /\ windows' = Append(windows,
                         <<current_start, EndIndex(current_start, max_length, Len(text))>>)
    /\ current_start' = NextStart(current_start, max_length, overlap)
    /\ UNCHANGED <<text, max_length, overlap, tokenizer, final_chunks, token_counts, cpc>>
    /\ UNCHANGED <<saveVars, mainVars>>

\* lines 50, 55, 65-67: the loop ends and the chunks are handed back
PrelimReturn ==
    /\ cpc = "prelim"
    /\ ~LoopCond(current_start, Len(text))
    /\ cpc' = "tokenize"
    /\ UNCHANGED <<text, max_length, overlap, tokenizer, current_start, chunks,
                   windows, final_chunks, token_counts>>
    /\ UNCHANGED <<saveVars, mainVars>>

\* lines 68-77: one iteration of the for loop
TokenizeStep ==
    /\ cpc = "tokenize"
    /\ Len(final_chunks) < Len(chunks)
    /\ LET pre_chunk == chunks[Len(final_chunks) + 1]
           tokens == Tokenize(tokenizer, pre_chunk)
           token_count == Len(tokens)
       IN  IF Overflows(token_count, max_length)
           THEN /\ cpc' = "ValueError"
                /\ UNCHANGED <<final_chunks, token_counts>>
           ELSE /\ final_chunks' = Append(final_chunks,
                                          ConvertTokensToString(tokenizer, tokens))
                /\ token_counts' = Append(token_counts, token_count)
                /\ cpc' = cpc
    /\ UNCHANGED <<text, max_length, overlap, tokenizer, current_start, chunks, windows>>
    /\ UNCHANGED <<saveVars, mainVars>>

\* line 79
SplitReturn ==
    /\ cpc = "tokenize"
    /\ Len(final_chunks) = Len(chunks)
    /\ cpc' = "returned"
    /\ UNCHANGED <<text, max_length, overlap, tokenizer, current_start, chunks,
                   windows, final_chunks, token_counts>>
    /\ UNCHANGED <<saveVars, mainVars>>

NextChunk == PrelimStep \/ PrelimReturn \/ TokenizeStep \/ SplitReturn

SpecChunk == InitChunk /\ [][NextChunk]_vars
\* The interpreter keeps running a started call: an iteration of the while
\* loop that can be taken is taken, and so is the return that follows the
\* loop.  The termination of preliminary_split_text rests on nothing else.
FairSpecChunk == SpecChunk /\ WF_vars(PrelimStep) /\ WF_vars(PrelimReturn)

ValidParams == 0 <= overlap /\ overlap < max_length
PrelimDone == cpc \in {"tokenize", "returned", "ValueError"}
CeilDiv(a, b) == (a + b - 1) \div b

(***************************************************************************)
(* Properties of the chunker, checked under SpecChunk / FairSpecChunk      *)
(***************************************************************************)
\* The chunks put back together: the first whole, every later one without
\* the characters it shares with its predecessor.
RECURSIVE DropOverlaps(_, _)
DropOverlaps(cs, ov) ==
    IF cs = <<>> THEN <<>>
    ELSE SubSeq(Head(cs), Min(ov, Len(Head(cs))) + 1, Len(Head(cs)))
         \o DropOverlaps(Tail(cs), ov)
Reassemble(cs, ov) ==
    IF cs = <<>> THEN <<>> ELSE Head(cs) \o DropOverlaps(Tail(cs), ov)

\* C1 as stated: a non-empty text shorter than max_length (overlap <
\* max_length) yields exactly one chunk, equal to the text, from
\* preliminary_split_text and, with the character tokenizer, from
\* split_text_into_smaller_chunks.
C1_OneChunkIfShorterThanMaxLength ==
    (ValidParams /\ 0 < Len(text) /\ Len(text) < max_length) =>
        /\ PrelimDone => chunks = <<text>>
        /\ (cpc = "returned" /\ tokenizer = "char") => final_chunks = <<text>>

\* C1 amended: a non-empty text of at most max_length - overlap characters
\* yields exactly one chunk, equal to the text (also from
\* split_text_into_smaller_chunks with the character tokenizer); a text
\* longer than max_length - overlap and shorter than max_length yields more
\* than one chunk, the first of which equals the text.
C1_OneChunkIfWithinStride ==
    (ValidParams /\ 0 < Len(text) /\ Len(text) < max_length) =>
        /\ (PrelimDone /\ Len(text) <= max_length - overlap) => chunks = <<text>>
        /\ (cpc = "returned" /\ tokenizer = "char"
              /\ Len(text) <= max_length - overlap) => final_chunks = <<text>>
        /\ (PrelimDone /\ Len(text) > max_length - overlap) =>
              (Len(chunks) > 1 /\ chunks[1] = text)
C1_Witness ==
    /\ ValidParams /\ overlap > 0 /\ Len(text) = max_length - overlap
    /\ cpc = "returned" /\ tokenizer = "char" /\ final_chunks = <<text>>

\* C3: with overlap < max_length, once preliminary_split_text has returned,
\* every index of the text lies in some window [start, end) and the chunk
\* of that window holds the text's character there; and the chunks with
\* their overlaps removed, concatenated, are the text.
C3_WindowsCoverText ==
    (ValidParams /\ PrelimDone) =>
        /\ Len(windows) = Len(chunks)
        /\ \A i \in 0..(Len(text) - 1) :
              \E k \in 1..Len(windows) :
                 /\ windows[k][1] <= i /\ i < windows[k][2]
                 /\ Len(chunks[k]) = windows[k][2] - windows[k][1]
                 /\ chunks[k][i - windows[k][1] + 1] = text[i + 1]
        /\ Reassemble(chunks, overlap) = text
C3_Witness ==
    /\ ValidParams /\ PrelimDone /\ overlap > 0
    /\ Len(chunks) >= 3 /\ Len(chunks[Len(chunks)]) < max_length

\* C7: split_text_into_smaller_chunks returns only if no window has more
\* than max_length tokens, and then every chunk it returns is the
\* detokenization of its window's at most max_length tokens; it raises
\* ValueError only at a window with more than max_length tokens.
C7_NoChunkOverTokenBudget ==
    /\ cpc = "returned" =>
          /\ Len(final_chunks) = Len(chunks)
          /\ Len(token_counts) = Len(chunks)
          /\ \A k \in 1..Len(chunks) :
                /\ Len(Tokenize(tokenizer, chunks[k])) <= max_length
                /\ token_counts[k] = Len(Tokenize(tokenizer, chunks[k]))
                /\ final_chunks[k] =
                      ConvertTokensToString(tokenizer, Tokenize(tokenizer, chunks[k]))
    /\ cpc = "ValueError" =>
          /\ Len(final_chunks) < Len(chunks)
          /\ Len(Tokenize(tokenizer, chunks[Len(final_chunks) + 1])) > max_length
    /\ (cpc = "tokenize" /\ Len(final_chunks) < Len(chunks)
          /\ Len(Tokenize(tokenizer, chunks[Len(final_chunks) + 1])) > max_length)
       => ~ENABLED SplitReturn
C7_Witness ==
    /\ cpc = "ValueError" /\ tokenizer = "byte" /\ ValidParams
    /\ Len(final_chunks) >= 1

\* C10: with overlap < max_length the loop of preliminary_split_text ends,
\* and when it has, there are exactly ceil(len(text) / (max_length -
\* overlap)) chunks (none for the empty text); with overlap >= max_length
\* and a non-empty text the loop condition stays true for ever.
C10_TerminatesWithCeilChunks ==
    /\ [](ValidParams => <>PrelimDone)
    /\ []((ValidParams /\ PrelimDone) =>
             Len(chunks) = CeilDiv(Len(text), max_length - overlap))
    /\ []((ValidParams /\ cpc = "prelim") =>
             (LoopCond(current_start, Len(text))
                <=> Len(chunks) < CeilDiv(Len(text), max_length - overlap)))
    /\ []((~ValidParams /\ Len(text) > 0) =>
             (cpc = "prelim" /\ LoopCond(current_start, Len(text))))
C10_Witness ==
    /\ ValidParams /\ PrelimDone /\ overlap > 0 /\ Len(chunks) = Len(text)
    /\ Len(text) >= 3

(***************************************************************************)
(* Python values handed to save_qas_to_json: strings, tuples and lists.    *)
(***************************************************************************)
Str(x) == [kind |-> "str", s |-> x, items |-> <<>>]
Tuple(xs) == [kind |-> "tuple", s |-> "", items |-> xs]
List(xs) == [kind |-> "list", s |-> "", items |-> xs]
Pair(q, a) == Tuple(<<Str(q), Str(a)>>)

(***************************************************************************)
(* os.path on Windows (the script calls ctypes.windll): both slashes       *)
(* separate, a leading "X:" is the drive.  Paths are character sequences.  *)
(***************************************************************************)
Seps == {"/", "\\"}
EndsWith(s, suffix) ==
    Len(s) >= Len(suffix) /\ SubSeq(s, Len(s) - Len(suffix) + 1, Len(s)) = suffix
DotPdf == <<".", "p", "d", "f">>

\* os.path.join(folder_path, filename), lines 30 and 127
Join(folder, name) ==
    IF folder # <<>> /\ folder[Len(folder)] \in Seps \cup {":"}
    THEN folder \o name
    ELSE folder \o <<"\\">> \o name

\* os.path.basename, line 98
Basename(p) ==
    LET rest == IF Len(p) >= 2 /\ p[2] = ":" THEN SubSeq(p, 3, Len(p)) ELSE p
        cut  == {i \in 1..Len(rest) : rest[i] \in Seps}
        last == IF cut = {} THEN 0 ELSE CHOOSE i \in cut : \A j \in cut : j <= i
    IN  SubSeq(rest, last + 1, Len(rest))

\* os.path.splitext(p)[0], line 98: the extension starts at the last dot of
\* the last component, unless only dots precede it there.
SplitextRoot(p) ==
    LET seps == {i \in 1..Len(p) : p[i] \in Seps}
        sepIndex == IF seps = {} THEN 0 ELSE CHOOSE i \in seps : \A j \in seps : j <= i
        dots == {i \in 1..Len(p) : p[i] = "."}
        dotIndex == IF dots = {} THEN 0 ELSE CHOOSE i \in dots : \A j \in dots : j <= i
    IN  IF dotIndex > sepIndex /\ \E k \in (sepIndex + 1)..(dotIndex - 1) : p[k] # "."
        THEN SubSeq(p, 1, dotIndex - 1)
        ELSE p

\* line 98
PdfFileName(path) == SplitextRoot(Basename(path))

(***************************************************************************)
(* save_qas_to_json, lines 97-117                                          *)
(***************************************************************************)
\* line 103, mutated: a pair with an empty string is rejected as well
IsValidQaNonEmpty(qa) ==
    /\ qa.kind = "tuple" /\ Len(qa.items) = 2
    /\ qa.items[1].s # "" /\ qa.items[2].s # ""
\* line 103, mutated: len(qa) >= 2
IsValidQaAtLeastTwo(qa) == qa.kind = "tuple" /\ Len(qa.items) >= 2
\* line 103
IsValidQa(qa) == qa.kind = "tuple" /\ Len(qa.items) = 2

\* lines 109-113, mutated: the prefixes are left out
ModifiedQaNoPrefix(name, qa) ==
    [Reference |-> name, Question |-> qa.items[1].s, Answer |-> qa.items[2].s]
\* lines 104, 109-113
ModifiedQa(name, qa) ==
    [Reference |-> name,
     Question  |-> "Question: " \o qa.items[1].s,
     Answer    |-> "Answer: " \o qa.items[2].s]

\* lines 102-114: the inner loop over one element of qas
RECURSIVE InnerLoop(_, _, _)
InnerLoop(name, qa_list, acc) ==
    IF qa_list = <<>> THEN acc
    ELSE IF IsValidQa(Head(qa_list))
         THEN InnerLoop(name, Tail(qa_list), Append(acc, ModifiedQa(name, Head(qa_list))))
         ELSE InnerLoop(name, Tail(qa_list), acc)         \* lines 105-107

\* lines 100-114: the outer loop; iterating a tuple or a list yields its items
RECURSIVE OuterLoop(_, _, _)
OuterLoop(name, qs, acc) ==
    IF qs = <<>> THEN acc
    ELSE OuterLoop(name, Tail(qs), InnerLoop(name, Head(qs).items, acc))

ModifiedQas(qs, path) == OuterLoop(PdfFileName(path), qs, <<>>)

\* lines 116-117, mutated: the file is opened for appending
WriteJsonAppend(old, records) == old \o records
\* lines 116-117: open(output_file, "w") truncates, json.dump writes the array
WriteJson(old, records) == records

(***************************************************************************)
(* SpecSave: one call of save_qas_to_json                                  *)
(***************************************************************************)
MaxEntries == 3

\* line 151
FolderPath ==
    <<"C", ":", "/", "U", "s", "e", "r", "s", "/", "m", "c", "l", "a",
        "u", "/", "D", "o", "w", "n", "l", "o", "a", "d", "s", "/", "D",
        "F", "A", "R", "s", "-", "P", "r", "o", "c", "e", "s", "s", "e",
        "d">>

Doc1Pdf == <<"d", "o", "c", "1", ".", "p", "d", "f">>
BV2Pdf  == <<"b", ".", "v", "2", ".", "p", "d", "f">>
HiddenPdf == DotPdf
NotesTxt == <<"n", ".", "t", "x", "t">>
UpperPdf == <<"c", ".", "P", "D", "F">>

\* What the generator may return for a pair, and the entries of other shapes.
ValidPairs == {Pair("Q1", "A1"), Pair("Q2", "A2"), Pair("", "A3"), Pair("Q4", "")}
Malformed == {Tuple(<<Str("X")>>),
              Tuple(<<Str("Q"), Str("A"), Str("B")>>),
              List(<<Str("Q"), Str("A")>>)}
Entries == ValidPairs \cup Malformed

\* The shapes of qas over a sequence e of entries: e itself (a flat list),
\* e as one list, and e cut into two lists (one list per chunk).
Shapes(e) ==
    {e, <<List(e)>>}
      \cup {<<List(SubSeq(e, 1, k)), List(SubSeq(e, k + 1, Len(e)))>> : k \in 0..Len(e)}

StaleRecords == <<[Reference |-> <<"o", "l", "d">>, Question |-> "Question: stale",
                   Answer |-> "Answer: stale"]>>

InitSave ==
    /\ \E e \in SeqsUpTo(Entries, MaxEntries) : qas \in Shapes(e)
    /\ pdf_file_path \in {Join(FolderPath, n) : n \in {Doc1Pdf, BV2Pdf, HiddenPdf}}
                           \cup {Doc1Pdf}
    /\ file \in {<<>>, StaleRecords}
    /\ spc = "call"
    /\ tokenizer = "char"
    /\ ChunkIdle /\ MainIdle

SaveQasToJson ==
    /\ spc = "call"
    /\ file' = WriteJson(file, ModifiedQas(qas, pdf_file_path))
    /\ spc' = "returned"
    /\ UNCHANGED <<qas, pdf_file_path>>
    /\ UNCHANGED <<chunkVars, mainVars>>

NextSave == SaveQasToJson

SpecSave == InitSave /\ [][NextSave]_vars

(***************************************************************************)
(* Properties of the dataset writer, checked under SpecSave                *)
(***************************************************************************)
\* qas as generate_qas builds it: a list of lists of entries.
IsNested(qs) ==
    \A i \in 1..Len(qs) :
        qs[i].kind = "list" /\ \A j \in 1..Len(qs[i].items) : qs[i].items[j] \in Entries
NestedEntries(qs) == Flatten([i \in 1..Len(qs) |-> qs[i].items])
IsPair(x) == x \in ValidPairs
\* The document name each path of InitSave is expected to be tagged with.
ExpectedReference(path) ==
    IF EndsWith(path, Doc1Pdf) THEN <<"d", "o", "c", "1">>
    ELSE IF EndsWith(path, BV2Pdf) THEN <<"b", ".", "v", "2">>
    ELSE <<".", "p", "d", "f">>
Doc1Records ==
    <<[Reference |-> <<"d", "o", "c", "1">>, Question |-> "Question: Q1", Answer |-> "Answer: A1"],
      [Reference |-> <<"d", "o", "c", "1">>, Question |-> "Question: Q2", Answer |-> "Answer: A2"]>>

\* C2 as stated: the flat pair list [("Q1","A1"), ("Q2","A2")] with a path
\* ending in doc1.pdf is written as the two doc1 records, and every valid
\* pair of a flat input produces one record.
C2_FlatPairsWritten ==
    spc = "returned" =>
        /\ (qas = <<Pair("Q1", "A1"), Pair("Q2", "A2")>> /\ EndsWith(pdf_file_path, Doc1Pdf))
              => file = Doc1Records
        /\ (\A i \in 1..Len(qas) : IsPair(qas[i])) => Len(file) = Len(qas)

\* C2 amended: the list of pair lists [[("Q1","A1"), ("Q2","A2")]] with a
\* path ending in doc1.pdf is written as the two doc1 records, in that
\* order; every pair inside an element of qas produces one record, in
\* order, with the file name minus its extension as Reference and the
\* prefixes "Question: " and "Answer: "; a flat list of pairs produces no
\* record (the file is the empty array).
C2_NestedPairsWritten ==
    spc = "returned" =>
        /\ (qas = <<List(<<Pair("Q1", "A1"), Pair("Q2", "A2")>>)>>
              /\ EndsWith(pdf_file_path, Doc1Pdf)) => file = Doc1Records
        /\ (IsNested(qas) /\ \A k \in 1..Len(NestedEntries(qas)) : IsPair(NestedEntries(qas)[k]))
              => /\ Len(file) = Len(NestedEntries(qas))
                 /\ \A k \in 1..Len(file) :
                       file[k] = [Reference |-> ExpectedReference(pdf_file_path),
                                  Question  |-> "Question: " \o NestedEntries(qas)[k].items[1].s,
                                  Answer    |-> "Answer: " \o NestedEntries(qas)[k].items[2].s]
        /\ (qas # <<>> /\ \A i \in 1..Len(qas) : IsPair(qas[i])) => file = <<>>
C2_Witness ==
    /\ spc = "returned"
    /\ qas = <<List(<<Pair("Q1", "A1"), Pair("Q2", "A2")>>)>>
    /\ pdf_file_path = Join(FolderPath, Doc1Pdf)
    /\ file = Doc1Records

C9_RecordsNonEmpty ==
    spc = "returned" =>
        \A k \in 1..Len(file) :
            file[k].Question # "Question: " /\ file[k].Answer # "Answer: "

\* C9 amended: every record written comes from a two-element tuple of
\* strings and carries those strings after the prefixes; a pair whose
\* question or answer is the empty string is stored too, as the bare prefix.
C9_RecordsFromTwoTuples ==
    (spc = "returned" /\ IsNested(qas)) =>
        LET pairs == SelectSeq(NestedEntries(qas), IsPair)
            empties == {k \in 1..Len(pairs) :
                          pairs[k].items[1].s = "" \/ pairs[k].items[2].s = ""}
        IN  /\ {k \in 1..Len(file) :
                   file[k].Question = "Question: " \/ file[k].Answer = "Answer: "} = empties
            /\ \A k \in 1..Len(file) :
                  \E x \in ValidPairs :
                     /\ file[k].Question = "Question: " \o x.items[1].s
                     /\ file[k].Answer = "Answer: " \o x.items[2].s
C9_Witness ==
    /\ spc = "returned" /\ IsNested(qas)
    /\ Len(file) = 2
    /\ file[1].Question = "Question: " /\ file[2].Answer = "Answer: "

(***************************************************************************)
(* generate_qas and main, lines 83-95 and 121-148                          *)
(***************************************************************************)
MaxListing == 3
MaxMaxFiles == 2
\* the defaults of split_text_into_smaller_chunks, line 57
DefaultMaxLength == 512
DefaultOverlap == 128
\* three windows of the default size: two strides and one character
Doc1Chars == 2 * (DefaultMaxLength - DefaultOverlap) + 1

FileNames == {Doc1Pdf, BV2Pdf, HiddenPdf, NotesTxt, UpperPdf}
Listings == {l \in SeqsUpTo(FileNames, MaxListing) :
                \A i, j \in 1..Len(l) : i # j => l[i] # l[j]}

\* The text fitz extracts from each file of the folder (lines 128-132):
\* doc1.pdf holds Doc1Chars characters, every third one outside ASCII,
\* b.v2.pdf a few characters, .pdf has no text.
DiskText(name) ==
    IF name = Doc1Pdf
    THEN [i \in 1..Doc1Chars |-> IF i % 3 = 0 THEN "E" ELSE IF i % 3 = 1 THEN "a" ELSE " "]
    ELSE IF name = BV2Pdf THEN <<"a", " ", "E", "a">>
    ELSE <<>>

\* What model.generate_qa([part]) returns when it returns: one list of
\* entries for the one text it was given (line 90).
GenOutputs == {<<List(<<Pair("Q1", "A1")>>)>>,
               <<List(<<Pair("Q2", "A2"), Tuple(<<Str("X")>>)>>)>>}

\* line 27
IsPdf(filename) == EndsWith(filename, DotPdf)
\* line 125, mutated: one file too many gets through
CapReachedOffByOne(mf, n) == mf # 0 /\ n > mf
\* line 125
CapReached(mf, n) == mf # 0 /\ n >= mf
\* line 91, mutated: qas = qa_part
ExtendAssigns(q, qa_part) == qa_part
\* line 91: qas.extend(qa_part)
Extend(q, qa_part) == q \o qa_part

Init ==
    /\ listing \in Listings
    /\ max_files \in 0..MaxMaxFiles
    /\ tokenizer \in Tokenizers
    /\ pos = 0
    /\ texts = <<>>                 \* line 122
    /\ parts = <<>> /\ part_idx = 0 /\ submitted = <<>> /\ outcomes = <<>>
    /\ opened = <<>> /\ saves = <<>>
    /\ power = "awake"
    /\ mpc = "loop"
    /\ qas = <<>> /\ pdf_file_path = <<>> /\ spc = "idle"
    /\ file \in {<<>>, StaleRecords}
    /\ ChunkIdle

\* lines 123-124: an entry that is no PDF is passed over
SkipEntry ==
    /\ mpc = "loop" /\ pos < Len(listing)
    /\ ~IsPdf(listing[pos + 1])
    /\ pos' = pos + 1
    /\ UNCHANGED <<listing, max_files, texts, parts, part_idx, submitted, outcomes,
                   opened, saves, power, mpc>>
    /\ UNCHANGED <<chunkVars, saveVars>>

\* lines 125-126: break
BreakAtCap ==
    /\ mpc = "loop" /\ pos < Len(listing)
    /\ IsPdf(listing[pos + 1])
    /\ CapReached(max_files, Len(texts))
    /\ mpc' = "prompt"
    /\ UNCHANGED <<listing, max_files, pos, texts, parts, part_idx, submitted,
                   outcomes, opened, saves, power>>
    /\ UNCHANGED <<chunkVars, saveVars>>

\* line 123: the listing is exhausted
LoopEnd ==
    /\ mpc = "loop" /\ pos = Len(listing)
    /\ mpc' = "prompt"
    /\ UNCHANGED <<listing, max_files, pos, texts, parts, part_idx, submitted,
                   outcomes, opened, saves, power>>
    /\ UNCHANGED <<chunkVars, saveVars>>

\* line 128: fitz.open raises on a file it cannot parse; nothing catches it
OpenFails ==
    /\ mpc = "loop" /\ pos < Len(listing)
    /\ IsPdf(listing[pos + 1])
    /\ ~CapReached(max_files, Len(texts))
    /\ opened' = Append(opened, Join(FolderPath, listing[pos + 1]))
    /\ mpc' = "aborted"
    /\ UNCHANGED <<listing, max_files, pos, texts, parts, part_idx, submitted,
                   outcomes, saves, power>>
    /\ UNCHANGED <<chunkVars, saveVars>>

\* lines 127-135 and 84-87: the text is extracted, generate_qas starts and
\* splits it; a ValueError of the split is not caught
ExtractAndSplit ==
    /\ mpc = "loop" /\ pos < Len(listing)
    /\ IsPdf(listing[pos + 1])
    /\ ~CapReached(max_files, Len(texts))
    /\ LET pdf_path == Join(FolderPath, listing[pos + 1])
           t == DiskText(listing[pos + 1])
           split == split_text_into_smaller_chunks(t, tokenizer,
                                                   DefaultMaxLength, DefaultOverlap)
       IN  /\ opened' = Append(opened, pdf_path)
           /\ texts' = Append(texts, t)
           /\ pdf_file_path' = pdf_path
           /\ qas' = <<>>
           /\ submitted' = <<>> /\ outcomes' = <<>> /\ part_idx' = 0
           /\ IF split.raised
              THEN mpc' = "aborted" /\ parts' = <<>>
              ELSE mpc' = "generate" /\ parts' = split.final_chunks
    /\ UNCHANGED <<listing, max_files, pos, saves, power, file, spc>>
    /\ UNCHANGED chunkVars

\* lines 88-91: the model returns and its output is collected
GenerateReturns ==
    /\ mpc = "generate" /\ part_idx < Len(parts)
    /\ \E qa_part \in GenOutputs :
          /\ qas' = Extend(qas, qa_part)
          /\ outcomes' = Append(outcomes, [kind |-> "returned", qa_part |-> qa_part])
    /\ submitted' = Append(submitted, parts[part_idx + 1])
    /\ part_idx' = part_idx + 1
    /\ UNCHANGED <<listing, max_files, pos, texts, parts, opened, saves, power, mpc>>
    /\ UNCHANGED <<pdf_file_path, file, spc>>
    /\ UNCHANGED chunkVars

\* lines 90, 92-94: the model raises AnswerNotFoundError, which is caught
GenerateAnswerNotFound ==
    /\ mpc = "generate" /\ part_idx < Len(parts)
    /\ outcomes' = Append(outcomes, [kind |-> "AnswerNotFound", qa_part |-> <<>>])
    /\ submitted' = Append(submitted, parts[part_idx + 1])
    /\ part_idx' = part_idx + 1
    /\ UNCHANGED <<listing, max_files, pos, texts, parts, opened, saves, power, mpc>>
    /\ UNCHANGED saveVars
    /\ UNCHANGED chunkVars

\* line 90: the model raises anything else, which nothing catches
GenerateFails ==
    /\ mpc = "generate" /\ part_idx < Len(parts)
    /\ outcomes' = Append(outcomes, [kind |-> "error", qa_part |-> <<>>])
    /\ submitted' = Append(submitted, parts[part_idx + 1])
    /\ part_idx' = part_idx + 1
    /\ mpc' = "aborted"
    /\ UNCHANGED <<listing, max_files, pos, texts, parts, opened, saves, power>>
    /\ UNCHANGED saveVars
    /\ UNCHANGED chunkVars

\* lines 95-117 and 136: the parts are used up, the dataset is written and
\* main goes on to the next entry
SaveAndReport ==
    /\ mpc = "generate" /\ part_idx = Len(parts)
    /\ file' = WriteJson(file, ModifiedQas(qas, pdf_file_path))
    /\ saves' = Append(saves, pdf_file_path)
    /\ pos' = pos + 1
    /\ mpc' = "loop"
    /\ UNCHANGED <<listing, max_files, texts, parts, part_idx, submitted, outcomes,
                   opened, power>>
    /\ UNCHANGED <<qas, pdf_file_path, spc>>
    /\ UNCHANGED chunkVars

\* lines 139-148: the message box; Cancel (2) keeps the machine awake
Prompt ==
    /\ mpc = "prompt"
    /\ \E result \in {1, 2} : power' = IF result = 2 THEN "awake" ELSE "sleep"
    /\ mpc' = "done"
    /\ UNCHANGED <<listing, max_files, pos, texts, parts, part_idx, submitted,
                   outcomes, opened, saves>>
    /\ UNCHANGED <<chunkVars, saveVars>>

Next ==
    \/ SkipEntry \/ BreakAtCap \/ LoopEnd \/ OpenFails \/ ExtractAndSplit
    \/ GenerateReturns \/ GenerateAnswerNotFound \/ GenerateFails
    \/ SaveAndReport \/ Prompt

Spec == Init /\ [][Next]_vars

(***************************************************************************)
(* Properties of generate_qas and main, checked under Spec                 *)
(***************************************************************************)
\* What the calls of the model that returned have returned, in call order.
ReturnedParts(os) ==
    Flatten([i \in 1..Len(os) |-> IF os[i].kind = "returned" THEN os[i].qa_part ELSE <<>>])
\* The records a list of lists of entries is expected to be written as.
ExpectedRecords(qs, path) ==
    LET pairs == SelectSeq(NestedEntries(qs), IsPair)
    IN  [k \in 1..Len(pairs) |->
            [Reference |-> ExpectedReference(path),
             Question  |-> "Question: " \o pairs[k].items[1].s,
             Answer    |-> "Answer: " \o pairs[k].items[2].s]]
\* The names of FileNames that end in ".pdf", and those of a listing.
PdfNames == {Doc1Pdf, BV2Pdf, HiddenPdf}
PdfEntries(l) == SelectSeq(l, LAMBDA n : n \in PdfNames)
ExpectedCount(l, mf) ==
    IF mf = 0 THEN Len(PdfEntries(l)) ELSE Min(mf, Len(PdfEntries(l)))
LoopOver == mpc \in {"prompt", "done"}

\* C4: a call of the model that raises AnswerNotFound leaves the collected
\* pairs as they were and generate_qas goes on with the next chunk; every
\* chunk is handed to the model in chunk order; and when generate_qas has
\* gone through the chunks it has written, once, the records of what the
\* returning calls returned, in chunk order.
C4_AnswerNotFoundSkipsOnlyThatChunk ==
    /\ [][(mpc = "generate" /\ outcomes' # outcomes
             /\ outcomes'[Len(outcomes')].kind = "AnswerNotFound")
          => (/\ qas' = qas /\ file' = file /\ saves' = saves
              /\ mpc' = "generate" /\ part_idx' = part_idx + 1
              /\ parts' = parts)]_vars
    /\ [](mpc = "generate" =>
             /\ submitted = SubSeq(parts, 1, part_idx)
             /\ Len(outcomes) = part_idx
             /\ qas = ReturnedParts(outcomes)
             /\ Len(saves) = Len(texts) - 1)
    /\ []((mpc \in {"loop", "prompt", "done"} /\ texts # <<>>) =>
             /\ submitted = parts
             /\ \A i \in 1..Len(outcomes) : outcomes[i].kind # "error"
             /\ qas = ReturnedParts(outcomes)
             /\ Len(saves) = Len(texts)
             /\ file = ExpectedRecords(ReturnedParts(outcomes), saves[Len(saves)]))
C4_Witness ==
    /\ mpc = "loop" /\ Len(outcomes) = 3
    /\ outcomes[1].kind = "returned"
    /\ outcomes[2].kind = "AnswerNotFound"
    /\ outcomes[3].kind = "returned"
    /\ Len(submitted) = 3 /\ Len(saves) = 1 /\ Len(file) = 2

\* C5: when main has gone through a folder and written for two or more
\* documents, the output file holds exactly the records of the last
\* document written (none when that document gave no pairs) and no record
\* of an earlier one; every write leaves exactly the records of its own
\* document in the file.
C5_OnlyLastDocumentSurvives ==
    /\ (LoopOver /\ Len(saves) >= 2) =>
          /\ file = ExpectedRecords(qas, saves[Len(saves)])
          /\ \A k \in 1..Len(file) : \A j \in 1..(Len(saves) - 1) :
                file[k].Reference # ExpectedReference(saves[j])
    /\ (mpc \in {"loop", "prompt", "done"} /\ Len(saves) >= 1) =>
          file = ExpectedRecords(qas, saves[Len(saves)])
C5_Witness ==
    /\ mpc = "done" /\ Len(saves) = 2 /\ Len(file) >= 1
    /\ saves[1] = Join(FolderPath, Doc1Pdf)
    /\ file[1].Reference = <<"b", ".", "v", "2">>

\* C6: main opens only entries that end in ".pdf", in listing order, never
\* more than the first min(max_files, number of PDFs) of them (all of them
\* when max_files = 0); when its loop is over it has opened and written
\* for exactly those.
C6_OnlyFirstPdfsProcessed ==
    /\ Len(opened) <= ExpectedCount(listing, max_files)
    /\ \A i \in 1..Len(opened) : opened[i] = Join(FolderPath, PdfEntries(listing)[i])
    /\ \A i \in 1..Len(saves) : saves[i] = opened[i]
    /\ Len(saves) <= Len(opened)
    /\ Len(texts) <= Len(opened)
    /\ LoopOver =>
          /\ Len(opened) = ExpectedCount(listing, max_files)
          /\ saves = opened
C6_Witness ==
    /\ mpc = "done" /\ max_files = 1
    /\ listing = <<NotesTxt, BV2Pdf, Doc1Pdf>>
    /\ opened = <<Join(FolderPath, BV2Pdf)>> /\ saves = opened
====
